---- MODULE Spec2Model ----
(***************************************************************************)
(* Model of the two command-line tools of ai-career-coach/scripts:         *)
(*   check_gemini_key.py  (the key validator)                              *)
(*   gemini_generate.py   (the prompt runner)                              *)
(*                                                                         *)
(* One behaviour of the model is one invocation of one of the tools.       *)
(*                                                                         *)
(* Strings of data (credential, response bodies, model names, results) are *)
(* run-length encoded: a Text is a sequence of runs [c |-> char, n |-> k], *)
(* k >= 1, adjacent runs holding different characters.  The encoding is    *)
(* exact, and keeps 4000-character strings small.  Literal messages of the *)
(* programs are TLA+ strings.                                              *)
(***************************************************************************)
EXTENDS Integers, Sequences, FiniteSets, TLC

VARIABLES tool, api_key, prompt_given, pc, out, net, exit_code, traceback,
          resp, parsed, lib, result, err, post

vars == <<tool, api_key, prompt_given, pc, out, net, exit_code, traceback,
          resp, parsed, lib, result, err, post>>

(***************************************************************************)
(* Bounds of the model.                                                    *)
(***************************************************************************)
\* largest number of entries of a models list (the code prints at most 10)
MaxModels == 12
\* how far beyond a truncation bound the longest strings reach
MaxExtra == 7

(***************************************************************************)
(* Program constants.                                                      *)
(***************************************************************************)
BodyBound == 400
NameBound == 200
ResultBound == 4000
ListLimit == 10
ExitOk == 0
ExitCrash == 1
ExitNoKey == 2
ExitNetwork == 3
ExitUnauthorized == 4
ExitOtherStatus == 5

(***************************************************************************)
(* Text: run-length encoded strings.                                       *)
(***************************************************************************)
W(c, n) == IF n <= 0 THEN <<>> ELSE <<[c |-> c, n |-> n]>>

RECURSIVE TLen(_)
TLen(t) == IF t = <<>> THEN 0 ELSE t[1].n + TLen(Tail(t))

\* a + b
Cat(a, b) ==
    IF a = <<>> THEN b
    ELSE IF b = <<>> THEN a
    ELSE IF a[Len(a)].c = b[1].c
         THEN SubSeq(a, 1, Len(a) - 1)
              \o <<[c |-> b[1].c, n |-> a[Len(a)].n + b[1].n]>>
              \o Tail(b)
         ELSE a \o b

\* t[:k]
RECURSIVE Take(_, _)
Take(t, k) ==
    IF k <= 0 \/ t = <<>> THEN <<>>
    ELSE IF t[1].n <= k THEN Cat(<<t[1]>>, Take(Tail(t), k - t[1].n))
    ELSE <<[c |-> t[1].c, n |-> k]>>

\* t[k:]
RECURSIVE Drop(_, _)
Drop(t, k) ==
    IF k <= 0 \/ t = <<>> THEN t
    ELSE IF t[1].n <= k THEN Drop(Tail(t), k - t[1].n)
    ELSE <<[c |-> t[1].c, n |-> t[1].n - k]>> \o Tail(t)

\* s.startswith(p)
StartsWith(s, p) == Take(s, TLen(p)) = p

IsSpace(c) == c \in {" ", "\n"}

\* s.strip() == ''
IsBlank(t) == \A i \in 1..Len(t) : IsSpace(t[i].c)

(***************************************************************************)
(* Python values: None, str, int, list, dict.                              *)
(***************************************************************************)
None == [t |-> "None"]
Str(x) == [t |-> "str", s |-> x]
Num(i) == [t |-> "int", i |-> i]
List(xs) == [t |-> "list", items |-> xs]
Dict(f) == [t |-> "dict", f |-> f]
\* the marker of a raised exception
Raised == [t |-> "raised"]

\* bool(v)
Truthy(v) ==
    CASE v.t = "None" -> FALSE
      [] v.t = "str" -> v.s # <<>>
      [] v.t = "int" -> v.i # 0
      [] v.t = "list" -> Len(v.items) > 0
      [] v.t = "dict" -> DOMAIN v.f # {}
      [] OTHER -> TRUE

\* a or b
PyOr(a, b) == IF Truthy(a) THEN a ELSE b

\* d.get(k) of a dict d
Get(d, k) == IF k \in DOMAIN d.f THEN d.f[k] ELSE None

\* str(v): a str is itself; the other values print as their repr, kept
\* schematic here (None, a digit, brackets around one mark per item, the
\* repr an SDK object carries)
PyStr(v) ==
    CASE v.t = "str" -> v
      [] v.t = "None" -> Str(<<[c |-> "N", n |-> 1], [c |-> "o", n |-> 1],
                               [c |-> "n", n |-> 1], [c |-> "e", n |-> 1]>>)
      [] v.t = "int" -> Str(W("7", 1))
      [] v.t = "list" -> Str(Cat(Cat(W("[", 1), W("x", Len(v.items))), W("]", 1)))
      [] v.t = "dict" -> Str(Cat(Cat(W("{", 1), W("x", Cardinality(DOMAIN v.f))), W("}", 1)))
      [] v.t = "obj" -> Str(v.repr)

(***************************************************************************)
(* check_gemini_key.py                                                     *)
(***************************************************************************)
Marker == W(".", 3)

\* variant: the marker counted within the length, s[:length - 3] + "..."
short_within_length(s, length) ==
    CASE s.t = "str" ->
            IF TLen(s.s) <= length THEN s
            ELSE Str(Cat(Take(s.s, length - TLen(Marker)), Marker))
      [] s.t = "list" -> IF Len(s.items) <= length THEN s ELSE Raised
      [] s.t = "dict" -> IF Cardinality(DOMAIN s.f) <= length THEN s ELSE Raised
      [] OTHER -> Raised

\* short(s, length): s if len(s) <= length else s[:length] + "..."
\* len() of None or of an int raises TypeError; a list or dict has a len, and
\* slicing-and-adding "..." to one raises
short(s, length) ==
    CASE s.t = "str" ->
            IF TLen(s.s) <= length THEN s ELSE Str(Cat(Take(s.s, length), Marker))
      [] s.t = "list" -> IF Len(s.items) <= length THEN s ELSE Raised
      [] s.t = "dict" -> IF Cardinality(DOMAIN s.f) <= length THEN s ELSE Raised
      [] OTHER -> Raised

\* textwrap.indent(text, "  "): the prefix goes before every line that is not
\* blank; lines end at "\n"
IndentLine(l) == IF IsBlank(l) THEN l ELSE Cat(W(" ", 2), l)

RECURSIVE IndentFrom(_, _)
IndentFrom(t, cur) ==
    IF t = <<>> THEN IndentLine(cur)
    ELSE IF t[1].c = "\n"
         THEN Cat(IndentLine(Cat(cur, W("\n", 1))),
                  Cat(W("\n", t[1].n - 1), IndentFrom(Tail(t), <<>>)))
         ELSE IndentFrom(Tail(t), Cat(cur, <<t[1]>>))

indent(t) == IndentFrom(t, <<>>)

\* one print() call: the literal text and the value formatted into it
Line(msg, arg) == [msg |-> msg, arg |-> arg]

\* variant: only an unset variable counts as missing (api_key is None)
not_api_key_unset_only(k) == k.t = "None"

\* not api_key
not_api_key(k) == k.t = "None" \/ k.s = <<>>

\* the f-string of line 47
endpoint(k) ==
    [t |-> "url",
     base |-> "https://generativelanguage.googleapis.com/v1beta2/models?key=",
     key |-> k.s]

AIza == <<[c |-> "A", n |-> 1], [c |-> "I", n |-> 1],
          [c |-> "z", n |-> 1], [c |-> "a", n |-> 1]>>
sk == <<[c |-> "s", n |-> 1], [c |-> "k", n |-> 1], [c |-> "-", n |-> 1]>>

\* the format heuristic, lines 38-43
heuristic(k) ==
    IF StartsWith(k.s, AIza)
    THEN Line("- Looks like a Google API key (starts with 'AIza').", None)
    ELSE IF StartsWith(k.s, sk)
    THEN Line("- Looks like an OpenAI-style secret key (starts with 'sk-').", None)
    ELSE Line("- Key format unknown. Will still attempt a validation request.", None)

\* variant: data.get("model") or data.get("models") or data.get("availableModels")
models_of_model_first(data) ==
    PyOr(PyOr(Get(data, "model"), Get(data, "models")), Get(data, "availableModels"))

\* data.get("models") or data.get("model") or data.get("availableModels")
models_of(data) ==
    PyOr(PyOr(Get(data, "models"), Get(data, "model")), Get(data, "availableModels"))

\* the display name of one entry, lines 73-76
name_of(m) ==
    IF m.t = "dict"
    THEN PyOr(PyOr(Get(m, "name"), Get(m, "model")), PyStr(m))
    ELSE PyStr(m)

\* the loop of lines 71-77 over ms; stops at the first entry whose print raises
RECURSIVE entry_lines(_, _)
entry_lines(ms, acc) ==
    IF ms = <<>> THEN [lines |-> acc, crashed |-> FALSE]
    ELSE LET shown == short(name_of(ms[1]), NameBound)
         IN  IF shown.t = "raised"
             THEN [lines |-> acc, crashed |-> TRUE]
             ELSE entry_lines(Tail(ms), Append(acc, Line("  -", shown)))

\* models[:10]
FirstN(ms, k) == SubSeq(ms, 1, IF Len(ms) < k THEN Len(ms) ELSE k)

\* variant: code == 401
is_unauthorized_401_only(code) == code = 401

\* code in (401, 403)
is_unauthorized(code) == code \in {401, 403}

body_line(r) == Line("", Str(indent(short(Str(r.text), BodyBound).s)))

\* lines 60-95: what main prints and returns for the response r
\* (crashed: an exception left main; parsed: resp.json() was called)
classify(r) ==
    IF r.status_code = 200
    THEN IF r.json.t = "raised"
         THEN [lines |-> <<Line("- Received 200 but response is not valid JSON. Key may be partially valid.", None)>>,
               exit |-> ExitOk, crashed |-> FALSE, parsed |-> TRUE]
         ELSE IF r.json.t # "dict"
         THEN [lines |-> <<>>, exit |-> ExitCrash, crashed |-> TRUE, parsed |-> TRUE]
         ELSE LET models == models_of(r.json)
              IN  IF models.t = "list"
                  THEN LET e == entry_lines(FirstN(models.items, ListLimit), <<>>)
                           head == Line("- Key appears valid. model(s) returned:",
                                        Num(Len(models.items)))
                       IN  [lines |-> <<head>> \o e.lines,
                            exit |-> IF e.crashed THEN ExitCrash ELSE ExitOk,
                            crashed |-> e.crashed, parsed |-> TRUE]
                  ELSE [lines |-> <<Line("- Key appears valid (200). Response:", None),
                                    body_line(r)>>,
                        exit |-> ExitOk, crashed |-> FALSE, parsed |-> TRUE]
    ELSE IF is_unauthorized(r.status_code)
    THEN [lines |-> <<Line("- Unauthorized or forbidden. The API key is invalid or lacks permissions.", None),
                      body_line(r)>>,
          exit |-> ExitUnauthorized, crashed |-> FALSE, parsed |-> FALSE]
    ELSE [lines |-> <<Line("- Received unexpected status. Response body (truncated):", None),
                      body_line(r)>>,
          exit |-> ExitOtherStatus, crashed |-> FALSE, parsed |-> FALSE]

(***************************************************************************)
(* The environment of a run of check_gemini_key.py.                        *)
(***************************************************************************)
\* values of GEMINI_API_KEY: unset, empty, and keys of each prefix class
KeyTexts == {Cat(AIza, W("x", 3)), Cat(AIza, W("y", 3)),
             Cat(sk, W("x", 3)), Cat(sk, W("y", 3)), W("x", 6), W("y", 6)}
Keys == {None, Str(<<>>)} \cup {Str(k) : k \in KeyTexts}

\* response bodies around the 400-character bound
BodyTexts ==
    {W("a", n) : n \in {0, 3, BodyBound, BodyBound + 1, BodyBound + MaxExtra}}
    \cup {W(" ", 3), Cat(W("a", BodyBound - 2), W(".", 5))}
    \cup {Cat(W("a", 3), Cat(W("\n", 2), W("a", n))) : n \in {2, BodyBound}}

GoodEntry == Dict([name |-> Str(W("m", 5))])

\* entries of a models list: strings, numbers, null, and objects with and
\* without the fields name and model, of string and other types
Entries ==
    {GoodEntry, Str(W("m", 4)), Str(W("m", NameBound)),
     Str(W("m", NameBound + MaxExtra)), Num(7), None,
     Dict([name |-> Str(W("m", NameBound + 1))]),
     Dict([model |-> Str(W("m", 3))]),
     Dict([name |-> Str(<<>>), model |-> Str(W("m", 3))]),
     Dict([id |-> Num(7)]),
     Dict([name |-> Num(7)]),
     Dict([name |-> List(<<Num(7)>>)])}

\* lists of 0..MaxModels entries, one of them (the first or the last) of any
\* kind
ModelLists ==
    UNION {{[i \in 1..n |-> IF i = p THEN e ELSE GoodEntry] :
              p \in {1, n}, e \in Entries} : n \in 0..MaxModels}

Fields == {"models", "model", "availableModels"}
FieldValues == {None, List(<<>>), List(<<GoodEntry>>), Str(W("m", 3)), Num(0)}

\* what resp.json() can return
JsonValues ==
    {Dict(f) : f \in UNION {[D -> FieldValues] : D \in SUBSET Fields}}
    \cup {Dict([models |-> List(l)]) : l \in ModelLists}
    \cup {Dict([error |-> Str(W("e", 3))])}
    \cup {List(<<>>), List(<<GoodEntry>>), None, Num(7), Str(W("m", 3))}

Statuses == {200, 201, 400, 401, 403, 404, 429, 500}

\* outcomes of requests.get: RequestException, or a response
GetOutcomes ==
    {[raised |-> TRUE, status_code |-> 0, text |-> <<>>, json |-> Raised]}
    \cup {[raised |-> FALSE, status_code |-> c, text |-> b, json |-> j] :
            c \in Statuses \ {200}, b \in BodyTexts,
            j \in {Raised, Dict([error |-> Str(W("e", 3))])}}
    \cup {[raised |-> FALSE, status_code |-> 200, text |-> b, json |-> j] :
            b \in BodyTexts, j \in JsonValues \cup {Raised}}

(***************************************************************************)
(* check_gemini_key.main, in three steps.                                  *)
(***************************************************************************)
\* lines 26-49: read the credential, heuristic, build the endpoint
check_gemini_key_start ==
    /\ tool = "check_gemini_key"
    /\ pc = "start"
    /\ IF not_api_key(api_key)
       THEN /\ out' = Append(out, Line("GEMINI_API_KEY not found in environment or .env file.", None))
            /\ exit_code' = ExitNoKey
            /\ pc' = "done"
       ELSE /\ out' = out \o <<Line("Found GEMINI_API_KEY (hidden). Performing basic checks...", None),
                               heuristic(api_key),
                               Line("- Requesting models endpoint:", endpoint(api_key))>>
            /\ exit_code' = exit_code
            /\ pc' = "get"
    /\ UNCHANGED <<tool, api_key, prompt_given, net, traceback, resp, parsed,
                   lib, result, err, post>>

\* lines 51-58: the single GET
check_gemini_key_get ==
    /\ tool = "check_gemini_key"
    /\ pc = "get"
    /\ \E r \in GetOutcomes :
        /\ net' = Append(net, "GET")
        /\ resp' = r
        /\ IF r.raised
           THEN /\ out' = Append(out, Line("Network error while attempting to validate the key:",
                                           [t |-> "exc"]))
                /\ exit_code' = ExitNetwork
                /\ pc' = "done"
           ELSE /\ out' = Append(out, Line("- HTTP status:", Num(r.status_code)))
                /\ exit_code' = exit_code
                /\ pc' = "classify"
    /\ UNCHANGED <<tool, api_key, prompt_given, traceback, parsed,
                   lib, result, err, post>>

\* lines 60-95: classify the response
check_gemini_key_classify ==
    /\ tool = "check_gemini_key"
    /\ pc = "classify"
    /\ LET c == classify(resp)
       IN  /\ out' = out \o c.lines
           /\ exit_code' = c.exit
           /\ traceback' = c.crashed
           /\ parsed' = c.parsed
    /\ pc' = "done"
    /\ UNCHANGED <<tool, api_key, prompt_given, net, resp, lib, result, err, post>>

(***************************************************************************)
(* gemini_generate.py                                                      *)
(***************************************************************************)
\* ' '.join(text.strip().split()): whitespace runs become one space ...
RECURSIVE Squeeze(_)
Squeeze(t) ==
    IF t = <<>> THEN <<>>
    ELSE LET r == Squeeze(Tail(t))
         IN  IF IsSpace(t[1].c)
             THEN IF r # <<>> /\ r[1].c = " " THEN r ELSE <<[c |-> " ", n |-> 1]>> \o r
             ELSE <<t[1]>> \o r

\* ... and the ends are stripped
Strip(t) ==
    LET a == IF t # <<>> /\ IsSpace(t[1].c) THEN Tail(t) ELSE t
    IN  IF a # <<>> /\ IsSpace(a[Len(a)].c) THEN SubSeq(a, 1, Len(a) - 1) ELSE a

normalize(t) == Strip(Squeeze(t))

\* TextWrapper._split_chunks: words and the whitespace between them (the
\* texts of the model hold no hyphen or dash, where a word would split too)
RECURSIVE Chunks(_)
Chunks(t) ==
    IF t = <<>> THEN <<>>
    ELSE LET r == Chunks(Tail(t))
         IN  IF IsSpace(t[1].c) THEN <<<<t[1]>>>> \o r
             ELSE IF r # <<>> /\ ~IsSpace(r[1][1].c)
                  THEN <<<<t[1]>> \o r[1]>> \o Tail(r)
                  ELSE <<<<t[1]>>>> \o r

RECURSIVE Concat(_)
Concat(cs) == IF cs = <<>> THEN <<>> ELSE Cat(cs[1], Concat(Tail(cs)))

RECURSIVE ChunksLen(_)
ChunksLen(cs) == IF cs = <<>> THEN 0 ELSE TLen(cs[1]) + ChunksLen(Tail(cs))

\* the placeholder " [...]" of textwrap.shorten
Placeholder == <<[c |-> " ", n |-> 1], [c |-> "[", n |-> 1],
                 [c |-> ".", n |-> 3], [c |-> "]", n |-> 1]>>

\* TextWrapper._wrap_chunks, the inner loop: chunks that fit the width
RECURSIVE Fit(_, _, _)
Fit(cs, width, cur) ==
    IF cs # <<>> /\ ChunksLen(cur) + TLen(cs[1]) <= width
    THEN Fit(Tail(cs), width, Append(cur, cs[1]))
    ELSE [cur |-> cur, rest |-> cs]

\* TextWrapper._handle_long_word: a chunk longer than the width is broken
LongWord(f, width) ==
    IF f.rest # <<>> /\ TLen(f.rest[1]) > width
    THEN LET space_left == width - ChunksLen(f.cur)
         IN  [cur |-> Append(f.cur, Take(f.rest[1], space_left)),
              rest |-> <<Drop(f.rest[1], space_left)>> \o Tail(f.rest)]
    ELSE f

\* drop_whitespace: a blank chunk at the end of the line goes
DropBlank(cur) ==
    IF cur # <<>> /\ IsBlank(cur[Len(cur)]) THEN SubSeq(cur, 1, Len(cur) - 1) ELSE cur

\* the max_lines branch: chunks go until the placeholder fits behind a word
RECURSIVE Ellipsize(_, _)
Ellipsize(cur, width) ==
    IF cur = <<>> THEN Tail(Placeholder)
    ELSE IF ~IsBlank(cur[Len(cur)]) /\ ChunksLen(cur) + TLen(Placeholder) <= width
         THEN Cat(Concat(cur), Placeholder)
         ELSE Ellipsize(SubSeq(cur, 1, Len(cur) - 1), width)

\* textwrap.shorten(text, width)
shorten(text, width) ==
    LET f == LongWord(Fit(Chunks(normalize(text)), width, <<>>), width)
        cur == DropBlank(f.cur)
    IN  IF cur = <<>> THEN <<>>
        ELSE IF (f.rest = <<>> \/ (Len(f.rest) = 1 /\ IsBlank(f.rest[1])))
                /\ ChunksLen(cur) <= width
             THEN Concat(cur)
             ELSE Ellipsize(cur, width)

Absent == [t |-> "absent"]
Msg(m) == [t |-> "msg", m |-> m]

\* getattr(resp, "text", None) or getattr(resp, "response", resp), and the
\* except around it (lines 36-39)
extract(r) ==
    IF r.t # "obj" THEN r
    ELSE IF r.text.t = "raised" THEN r
    ELSE LET a == IF r.text.t = "absent" THEN None ELSE r.text
         IN  IF Truthy(a) THEN a
             ELSE IF r.response.t = "raised" \/ r.response.t = "absent" THEN r
             ELSE r.response

\* try_genai_library against the library l: the result, the error and the
\* generation calls issued
try_genai_library(l) ==
    IF ~l.importable
    THEN [result |-> None, err |-> Msg("google-genai library not available"), calls |-> <<>>]
    ELSE IF l.has_Client /\ l.Client_raises
    THEN [result |-> None, err |-> Msg("google-genai call failed"), calls |-> <<>>]
    ELSE IF l.has_Client /\ l.has_generate_content
    THEN IF l.call.t = "raised"
         THEN [result |-> None, err |-> Msg("google-genai call failed"), calls |-> <<"SDK">>]
         ELSE [result |-> extract(l.call), err |-> None, calls |-> <<"SDK">>]
    ELSE IF l.has_Text_generate
    THEN IF l.call.t = "raised"
         THEN [result |-> None, err |-> Msg("google-genai call failed"), calls |-> <<"SDK">>]
         ELSE [result |-> l.call, err |-> None, calls |-> <<"SDK">>]
    ELSE [result |-> None, err |-> Msg("google-genai installed but API surface not recognized"),
          calls |-> <<>>]

\* variant: err is None and isinstance(result, str)
use_sdk_str_only(res, e) == e.t = "None" /\ res.t = "str"

\* err is None and result is not None
use_sdk(res, e) == e.t = "None" /\ res.t # "None"

\* variant: without the except around resp.json(), an unparsable body raises
fallback_rest_json_only(p) ==
    IF p.raised \/ p.json.t = "raised" THEN [raised |-> TRUE, res |-> None]
    ELSE [raised |-> FALSE, res |-> p.json]

\* variant: with resp.raise_for_status(), an error status raises
fallback_rest_raise_for_status(p) ==
    IF p.raised \/ p.status_code >= 400 THEN [raised |-> TRUE, res |-> None]
    ELSE IF p.json.t = "raised" THEN [raised |-> FALSE, res |-> Str(p.text)]
    ELSE [raised |-> FALSE, res |-> p.json]

\* fallback_rest after requests.post: the parsed body, else the raw text;
\* an exception of the POST leaves the function (requests itself is taken
\* as installed: check_gemini_key.py imports it at module level)
fallback_rest(p) ==
    IF p.raised THEN [raised |-> TRUE, res |-> None]
    ELSE IF p.json.t = "raised" THEN [raised |-> FALSE, res |-> Str(p.text)]
    ELSE [raised |-> FALSE, res |-> p.json]

\* print(textwrap.shorten(str(result), 4000))
result_line(res) == Line("", Str(shorten(PyStr(res).s, ResultBound)))

(***************************************************************************)
(* The environment of a run of gemini_generate.py.                         *)
(***************************************************************************)
\* results around the 4000-character bound, as one word, as words, and with
\* whitespace to collapse
ResultTexts ==
    {W("a", n) : n \in {0, 5, ResultBound, ResultBound + 1}}
    \cup {Cat(W("a", ResultBound - 10), Cat(W(" ", 1), W("b", 10 + MaxExtra))),
          Cat(W("a", ResultBound - 3), Cat(W(" ", 1), W("b", MaxExtra))),
          Cat(W(" ", 2), Cat(W("a", 3), Cat(W("\n", 1), Cat(W(" ", 3), W("b", 2))))),
          Cat(W("a", 10), Cat(W(" ", ResultBound), W("b", 10)))}

TextAttrs == {Absent, Raised, None, Str(<<>>)} \cup {Str(x) : x \in ResultTexts}
ResponseAttrs == {Absent, None, Str(W("b", 4))}

\* what a generation call of the library does: raise, or return a value
CallOutcomes ==
    {Raised, None}
    \cup {Str(x) : x \in ResultTexts}
    \cup {[t |-> "obj", text |-> a, response |-> b, repr |-> W("r", 30)] :
            a \in TextAttrs, b \in ResponseAttrs}

\* the vendor library: absent, or present with any API surface
Libraries ==
    {[importable |-> FALSE, has_Client |-> FALSE, Client_raises |-> FALSE,
      has_generate_content |-> FALSE, has_Text_generate |-> FALSE, call |-> Raised]}
    \cup {[importable |-> TRUE, has_Client |-> hc, Client_raises |-> cr,
           has_generate_content |-> gc, has_Text_generate |-> tg, call |-> o] :
            hc \in BOOLEAN, cr \in BOOLEAN, gc \in BOOLEAN, tg \in BOOLEAN,
            o \in CallOutcomes}

\* outcomes of requests.post: an exception, or a response of any status
PostOutcomes ==
    {[raised |-> TRUE, status_code |-> 0, text |-> <<>>, json |-> Raised]}
    \cup {[raised |-> FALSE, status_code |-> c, text |-> b, json |-> j] :
            c \in {200, 403, 500}, b \in ResultTexts,
            j \in {Raised, Dict([error |-> Str(W("e", 3))]),
                   Dict([candidates |-> List(<<Str(W("o", 9))>>)])}}

(***************************************************************************)
(* gemini_generate.main, in four steps.                                    *)
(***************************************************************************)
\* lines 65-81: parse the arguments (argparse exits with 2 when --prompt is
\* missing), read the credential
gemini_generate_start ==
    /\ tool = "gemini_generate"
    /\ pc = "start"
    /\ IF ~prompt_given
       THEN /\ out' = out
            /\ exit_code' = 2
            /\ pc' = "done"
       ELSE IF not_api_key(api_key)
       THEN /\ out' = Append(out, Line("GEMINI_API_KEY not found in environment or .env. Set it and retry.", None))
            /\ exit_code' = ExitNoKey
            /\ pc' = "done"
       ELSE /\ out' = Append(out, Line("Using model:", None))
            /\ exit_code' = exit_code
            /\ pc' = "sdk"
    /\ UNCHANGED <<tool, api_key, prompt_given, net, traceback, resp, parsed,
                   lib, result, err, post>>

\* line 83: the SDK attempt
gemini_generate_sdk ==
    /\ tool = "gemini_generate"
    /\ pc = "sdk"
    /\ \E l \in Libraries :
        LET o == try_genai_library(l)
        IN  /\ lib' = l
            /\ result' = o.result
            /\ err' = o.err
            /\ net' = net \o o.calls
    /\ pc' = "select"
    /\ UNCHANGED <<tool, api_key, prompt_given, out, exit_code, traceback,
                   resp, parsed, post>>

\* lines 84-89: print the SDK result, or go on to the fallback
gemini_generate_select ==
    /\ tool = "gemini_generate"
    /\ pc = "select"
    /\ IF use_sdk(result, err)
       THEN /\ out' = out \o <<Line("--- Result (google-genai library) ---", None),
                               result_line(result)>>
            /\ exit_code' = ExitOk
            /\ pc' = "done"
       ELSE /\ out' = Append(out, Line("google-genai not used: . Falling back to REST endpoint...", err))
            /\ exit_code' = exit_code
            /\ pc' = "rest"
    /\ UNCHANGED <<tool, api_key, prompt_given, net, traceback, resp, parsed,
                   lib, result, err, post>>

\* lines 91-98: the fallback POST
gemini_generate_rest ==
    /\ tool = "gemini_generate"
    /\ pc = "rest"
    /\ \E p \in PostOutcomes :
        LET f == fallback_rest(p)
        IN  /\ post' = p
            /\ net' = Append(net, "POST")
            /\ IF f.raised
               THEN /\ out' = Append(out, Line("REST request failed:", [t |-> "exc"]))
                    /\ exit_code' = ExitNetwork
               ELSE /\ out' = out \o <<Line("--- Result (REST fallback) ---", None),
                                       result_line(f.res)>>
                    /\ exit_code' = ExitOk
    /\ pc' = "done"
    /\ UNCHANGED <<tool, api_key, prompt_given, traceback, resp, parsed,
                   lib, result, err>>

Tools == {"check_gemini_key", "gemini_generate"}

Init ==
    /\ tool \in Tools
    /\ api_key \in Keys
    /\ prompt_given \in (IF tool = "gemini_generate" THEN BOOLEAN ELSE {FALSE})
    /\ pc = "start"
    /\ out = <<>>
    /\ net = <<>>
    /\ exit_code = -1
    /\ traceback = FALSE
    /\ resp = None
    /\ parsed = FALSE
    /\ lib = None
    /\ result = None
    /\ err = None
    /\ post = None

Next ==
    \/ check_gemini_key_start
    \/ check_gemini_key_get
    \/ check_gemini_key_classify
    \/ gemini_generate_start
    \/ gemini_generate_sdk
    \/ gemini_generate_select
    \/ gemini_generate_rest

Spec == Init /\ [][Next]_vars

(***************************************************************************)
(* Vocabulary of the properties.                                           *)
(***************************************************************************)
Validator == tool = "check_gemini_key"
Runner == tool = "gemini_generate"
Done == pc = "done"

\* GEMINI_API_KEY is unset or empty
CredentialAbsent == api_key.t = "None" \/ (api_key.t = "str" /\ api_key.s = <<>>)

Issued(call) == \E i \in 1..Len(net) : net[i] = call
Count(call) == Cardinality({i \in 1..Len(net) : net[i] = call})

IsEntryLine(l) == l.msg = "  -"
IsTextLine(l) == l.msg = ""
IsListHeader(l) == l.msg = "- Key appears valid. model(s) returned:"
IsOpaqueHeader(l) == l.msg = "- Key appears valid (200). Response:"
EntryLines == SelectSeq(out, IsEntryLine)
TextLines == SelectSeq(out, IsTextLine)
Printed(Test(_)) == \E i \in 1..Len(out) : Test(out[i])

Min(a, b) == IF a < b THEN a ELSE b

\* t without its whitespace
RECURSIVE NoSpace(_)
NoSpace(t) ==
    IF t = <<>> THEN <<>>
    ELSE IF IsSpace(t[1].c) THEN NoSpace(Tail(t))
    ELSE Cat(<<t[1]>>, NoSpace(Tail(t)))

\* the validator got a response (the GET did not raise)
GotResponse == Validator /\ pc \in {"classify", "done"} /\ ~CredentialAbsent /\ ~resp.raised

\* ... of status 200 whose body parsed to an object
GotObject == GotResponse /\ resp.status_code = 200 /\ resp.json.t = "dict"

----
\* C1: in both tools, when GEMINI_API_KEY is unset or empty the run ends with
\* exit code 2 and no network call (GET, SDK generation call, POST) is ever
\* issued.
C1_AbsentCredentialExit2NoNetwork ==
    CredentialAbsent =>
        /\ net = <<>>
        /\ pc \in {"start", "done"}
        /\ Done => exit_code = 2

\* an empty (not unset) credential, run ended, in the prompt runner with a prompt
C1_Witness ==
    /\ Runner /\ prompt_given /\ Done
    /\ api_key.t = "str" /\ api_key.s = <<>>
    /\ exit_code = 2 /\ net = <<>>

\* the response body is printed, truncated: what is printed holds, apart from
\* indentation, the first 400 characters of the body
BodyPrinted ==
    /\ Len(TextLines) = 1
    /\ StartsWith(NoSpace(TextLines[1].arg.s), NoSpace(Take(resp.text, BodyBound)))

\* C2: key validator with a credential: a transport failure of the GET gives
\* exit code 3 and the response is never parsed; status 401 or 403 gives exit
\* code 4 with the truncated body printed; every status other than 200, 401,
\* 403 gives exit code 5 with the truncated body printed.
C2_NonSuccessClassification ==
    (Validator /\ Done /\ ~CredentialAbsent) =>
        /\ resp.raised => (exit_code = 3 /\ ~parsed /\ Count("GET") = 1)
        /\ (~resp.raised /\ resp.status_code \in {401, 403}) =>
                (exit_code = 4 /\ BodyPrinted /\ ~parsed)
        /\ (~resp.raised /\ resp.status_code \notin {200, 401, 403}) =>
                (exit_code = 5 /\ BodyPrinted /\ ~parsed)

\* a 403 with a body longer than the bound, classified
C2_Witness ==
    /\ Validator /\ Done /\ ~CredentialAbsent /\ ~resp.raised
    /\ resp.status_code = 403 /\ TLen(resp.text) > BodyBound
    /\ exit_code = 4

\* C3: key validator: for every HTTP 200 response whose parsed body has a
\* "models" field holding a list of N >= 1 entries, exactly min(N, 10) entry
\* lines are printed (the first min(N, 10) entries, in order) and the exit
\* code is 0.
C3_ListPrintsMinN10 ==
    (Done /\ GotObject /\ "models" \in DOMAIN resp.json.f
          /\ resp.json.f["models"].t = "list"
          /\ Len(resp.json.f["models"].items) >= 1) =>
        LET ms == resp.json.f["models"].items
        IN  /\ exit_code = 0
            /\ Len(EntryLines) = Min(Len(ms), ListLimit)
            /\ \A i \in 1..Len(EntryLines) :
                  name_of(ms[i]).t = "str" =>
                      StartsWith(EntryLines[i].arg.s, Take(name_of(ms[i]).s, NameBound))

\* C4: key validator with a credential: no failure leaves main as an uncaught
\* error; every HTTP 200 response, whatever its body, ends the run with exit
\* code 0, so every run ends with an exit code in {0, 2, 3, 4, 5}.
C4_NoUncaughtError ==
    (Validator /\ Done) =>
        /\ exit_code \in {0, 2, 3, 4, 5}
        /\ ~traceback
        /\ (GotResponse /\ resp.status_code = 200) => exit_code = 0

\* the string a run of the prompt runner displays as its result
ShownSource == IF Issued("POST") THEN PyStr(fallback_rest(post).res).s ELSE PyStr(result).s

ResultShown == Runner /\ Done /\ exit_code = 0

\* C5 (as claimed): every displayed string longer than its bound (200 for a
\* model name, 400 for a raw body, 4000 for the prompt runner's result) is
\* displayed, marker included, in exactly the bound's length; a string no
\* longer than its bound is displayed unchanged.
C5_TruncatedToExactlyBound ==
    /\ (Done /\ GotObject /\ Len(EntryLines) > 0) =>
          \A i \in 1..Len(EntryLines) :
              LET n == name_of(models_of(resp.json).items[i])
              IN  n.t = "str" =>
                    IF TLen(n.s) > NameBound
                    THEN TLen(EntryLines[i].arg.s) = NameBound
                    ELSE EntryLines[i].arg = n
    /\ (Validator /\ Done /\ Len(TextLines) > 0) =>
          IF TLen(resp.text) > BodyBound
          THEN TextLines[1].arg.s =
                   indent(Cat(Take(resp.text, BodyBound - TLen(Marker)), Marker))
          ELSE TextLines[1].arg.s = indent(resp.text)
    /\ ResultShown =>
          IF TLen(ShownSource) > ResultBound
          THEN TLen(TextLines[1].arg.s) = ResultBound
          ELSE TextLines[1].arg.s = ShownSource

\* C5 (amended): in the validator a model name longer than 200 characters, or
\* a raw body longer than 400, is displayed as its first 200 (400) characters
\* followed by the 3-character marker "...", bound + 3 characters in all (the
\* body then indented); a string no longer than its bound is displayed
\* unchanged.  The prompt runner displays the whitespace-normalised result in
\* at most 4000 characters: unchanged when it fits, else a prefix of it
\* followed by " [...]", or "[...]" alone.
C5_TruncationAsCoded ==
    /\ (Done /\ GotObject /\ Len(EntryLines) > 0) =>
          \A i \in 1..Len(EntryLines) :
              LET n == name_of(models_of(resp.json).items[i])
              IN  n.t = "str" =>
                    IF TLen(n.s) > NameBound
                    THEN /\ EntryLines[i].arg.s = Cat(Take(n.s, NameBound), W(".", 3))
                         /\ TLen(EntryLines[i].arg.s) = NameBound + 3
                    ELSE EntryLines[i].arg = n
    /\ (Validator /\ Done /\ Len(TextLines) > 0) =>
          IF TLen(resp.text) > BodyBound
          THEN /\ TextLines[1].arg.s = indent(Cat(Take(resp.text, BodyBound), W(".", 3)))
               /\ TLen(NoSpace(TextLines[1].arg.s)) <= BodyBound + 3
          ELSE TextLines[1].arg.s = indent(resp.text)
    /\ ResultShown =>
          LET d == TextLines[1].arg.s
              nrm == normalize(ShownSource)
          IN  /\ TLen(d) <= ResultBound
              /\ IF TLen(nrm) <= ResultBound
                 THEN d = nrm
                 ELSE \/ d = Tail(Placeholder)
                      \/ d = Cat(Take(nrm, TLen(d) - TLen(Placeholder)), Placeholder)

\* a model name longer than 200 characters was displayed
C5_Witness ==
    /\ Done /\ GotObject /\ Len(EntryLines) > 0 /\ exit_code = 0
    /\ \E i \in 1..Len(EntryLines) :
          LET n == name_of(models_of(resp.json).items[i])
          IN  n.t = "str" /\ TLen(n.s) > NameBound /\ TLen(EntryLines[i].arg.s) = NameBound + 3

\* the two recognized call shapes of the vendor library
Recognized(l) == (l.has_Client /\ l.has_generate_content) \/ l.has_Text_generate

\* the SDK attempt failed: library not importable, client construction
\* raising, neither call shape, or the call raising
SdkFailed(l) ==
    \/ ~l.importable
    \/ l.has_Client /\ l.Client_raises
    \/ ~Recognized(l)
    \/ l.call.t = "raised"

\* a run of the prompt runner with a prompt and a credential, past the SDK attempt
PastSdk == Runner /\ prompt_given /\ ~CredentialAbsent /\ pc \in {"select", "rest", "done"}

\* C6: prompt runner with a credential: whenever the SDK attempt fails in any
\* way, the run goes on to issue the fallback POST, and if the POST returns a
\* response the run returns exit code 0; an SDK failure never aborts the run.
C6_SdkFailureFallsBack ==
    (PastSdk /\ SdkFailed(lib)) =>
        /\ ~traceback
        /\ Done => /\ Issued("POST")
                   /\ ~post.raised => exit_code = 0

\* the library raised on its call, the POST answered with an error status
C6_Witness ==
    /\ PastSdk /\ Done /\ lib.importable /\ lib.call.t = "raised" /\ Issued("SDK")
    /\ Issued("POST") /\ ~post.raised /\ post.status_code = 500 /\ exit_code = 0

\* at most one SDK call and one POST, and the SDK call first
OneCallEachInOrder ==
    /\ Count("SDK") <= 1
    /\ Count("POST") <= 1
    /\ \A i, j \in 1..Len(net) : (net[i] = "POST" /\ net[j] = "SDK") => j < i
    /\ ~Issued("GET")

\* C7 (as claimed): prompt runner: at most one SDK generation call and at most
\* one POST per run, the SDK call before the POST, and the POST only if the
\* SDK attempt failed (library absent, unrecognized surface, or call raised);
\* a run whose SDK call returned without raising never issues the POST.
C7_PostOnlyAfterSdkFailure ==
    Runner =>
        /\ OneCallEachInOrder
        /\ Issued("POST") => SdkFailed(lib)
        /\ Len(TextLines) <= 1

\* C7 (amended): prompt runner: at most one SDK generation call and at most
\* one POST per run, the SDK call before the POST, and the POST only if the
\* SDK attempt gave no result: it failed (library absent, unrecognized
\* surface, or call raised) or it returned None; a run whose SDK attempt
\* gave a result other than None never issues the POST, so at most one of the
\* two paths produces the printed result.
C7_PostOnlyWithoutSdkResult ==
    Runner =>
        /\ OneCallEachInOrder
        /\ Issued("POST") => (SdkFailed(lib) \/ result.t = "None")
        /\ (PastSdk /\ ~SdkFailed(lib) /\ result.t # "None") =>
                (~Issued("POST") /\ pc # "rest")
        /\ Len(TextLines) <= 1

\* the SDK call returned None without raising, and the POST followed
C7_Witness ==
    /\ PastSdk /\ Done /\ ~SdkFailed(lib) /\ result.t = "None"
    /\ net = <<"SDK", "POST">>

\* the primary path raised: the import, the client construction or the call
PrimaryRaised(l) ==
    \/ ~l.importable
    \/ l.has_Client /\ l.Client_raises
    \/ Recognized(l) /\ l.call.t = "raised"

\* C8 (as claimed): prompt runner with a credential: exit code 0 whenever
\* either path yields a result object, whatever the fallback's HTTP status or
\* content; a non-zero exit code (3) only if both the SDK path and the
\* fallback path raise, the fallback's raise being that of the POST.
C8_NonZeroOnlyIfBothRaise ==
    (PastSdk /\ Done) =>
        /\ exit_code \in {0, 3}
        /\ (Issued("POST") /\ ~post.raised) => exit_code = 0
        /\ (~Issued("POST")) => exit_code = 0
        /\ exit_code = 3 => (PrimaryRaised(lib) /\ Issued("POST") /\ post.raised)

\* C8 (amended): prompt runner with a credential: exit code 0 whenever either
\* path yields a result object, whatever the fallback's HTTP status or
\* content; exit code 3 exactly when the SDK path gave no result (it failed:
\* library absent, unrecognized surface, or a raise; or it returned None) and
\* the POST of the fallback raised.
C8_Exit3IffNoSdkResultAndPostRaises ==
    (PastSdk /\ Done) =>
        /\ exit_code \in {0, 3}
        /\ (Issued("POST") /\ ~post.raised) => exit_code = 0
        /\ (~Issued("POST")) => (exit_code = 0 /\ result.t # "None")
        /\ exit_code = 3 <=>
              ((SdkFailed(lib) \/ result.t = "None") /\ Issued("POST") /\ post.raised)

\* exit code 3 although nothing raised in the SDK path: the library exposes
\* neither call shape
C8_Witness ==
    /\ PastSdk /\ Done /\ exit_code = 3
    /\ lib.importable /\ ~lib.has_Client /\ ~Recognized(lib)
    /\ post.raised

KnownFields == <<"models", "model", "availableModels">>

\* the known fields of the parsed object that hold a list
ListFields == {i \in 1..3 : Get(resp.json, KnownFields[i]).t = "list"}
\* the known fields of the parsed object whose value is truthy
TruthyFields == {i \in 1..3 : Truthy(Get(resp.json, KnownFields[i]))}
First(S) == CHOOSE i \in S : \A j \in S : i <= j

ListHeaderFor(v) ==
    /\ Printed(IsListHeader) /\ ~Printed(IsOpaqueHeader)
    /\ \E i \in 1..Len(out) : IsListHeader(out[i]) /\ out[i].arg = Num(Len(v.items))

Opaque == Printed(IsOpaqueHeader) /\ ~Printed(IsListHeader)

\* C9 (as claimed): key validator, HTTP 200 with a parsed object: the models
\* list is looked up under models, model, availableModels in this order,
\* first match wins; whenever at least one of them holds a list the outcome
\* is success-with-list using the first such field, and the outcome is
\* success-opaque only when none of the known fields is found (holds a list).
C9_FirstListFieldWins ==
    (Done /\ GotObject) =>
        /\ ListFields # {} =>
              ListHeaderFor(Get(resp.json, KnownFields[First(ListFields)]))
        /\ Opaque => ListFields = {}

\* the value the validator looks at: the first truthy one among the known
\* fields in order, else the value of the last field (None when missing)
Looked ==
    IF TruthyFields # {}
    THEN Get(resp.json, KnownFields[First(TruthyFields)])
    ELSE Get(resp.json, KnownFields[3])

\* C9 (amended): key validator, HTTP 200 with a parsed object: the value
\* looked at is that of the first of models, model, availableModels, in this
\* order, whose value is truthy (non-empty), or that of availableModels when
\* none is; the outcome is success-with-list exactly when that value is a
\* list, and success-opaque (raw body printed) otherwise.
C9_FirstTruthyFieldWins ==
    (Done /\ GotObject) =>
        IF Looked.t = "list"
        THEN ListHeaderFor(Looked)
        ELSE Opaque /\ Len(TextLines) = 1 /\ exit_code = 0

\* "models" holds an empty list, and the list under "model" is used
C9_Witness ==
    /\ Done /\ GotObject /\ exit_code = 0
    /\ Get(resp.json, "models") = List(<<>>)
    /\ Get(resp.json, "model").t = "list" /\ Len(Get(resp.json, "model").items) = 1
    /\ Len(EntryLines) = 1

\* the printed line holds the credential
Contains(l, k) == l.arg.t = "url" /\ l.arg.key = k.s

\* C10: key validator: the text it prints to standard output never contains
\* the value of the credential.
C10_CredentialNeverPrinted ==
    (Validator /\ ~CredentialAbsent) =>
        \A i \in 1..Len(out) : ~Contains(out[i], api_key)

====
